---- MODULE Spec2Model ----
(***************************************************************************)
(* Grid path search (A-star and IDA-star), nearest-task selection and the  *)
(* agent's move loop of the pathfinding simulation (run.py).               *)
(*                                                                         *)
(* A position is a pair <<x, y>> (column, row).  task_locations is the     *)
(* Python dict of the Environment, kept as the sequence of its items       *)
(* <<position, task_number>> in insertion order.  A search result is a     *)
(* record: found = FALSE is Python's None, otherwise path is the returned  *)
(* list (start cell included); iters counts the iterations of the A-star   *)
(* loop or the calls of the IDA-star depth-first search that produced it.  *)
(***************************************************************************)
EXTENDS Integers, Sequences, FiniteSets, TLC

\* Bounds of the model.
MaxColumns == 3
MaxRows == 3
MaxTasks == 2
MaxBarriers == 3

\* the grid and the largest requested count of the step-by-step construction
GenColumns == 2

GenRows == 2

MaxRequested == 5

\* float('inf') of ida_star_search: larger than every f value of the model.
Infinity == 1000000

VARIABLES
    columns,            \* Environment.columns
    rows,               \* Environment.rows
    task_locations,     \* Environment.task_locations
    barrier_locations,  \* Environment.barrier_locations
    position,           \* Agent.position
    path,               \* Agent.path
    moving,             \* Agent.moving
    cumulative_cost,    \* Agent.cumulative_cost
    task_completed,     \* Agent.task_completed
    completed_tasks,    \* Agent.completed_tasks
    simulation_started, \* main: simulation_started
    current_algorithm,  \* main: current_algorithm
    num_tasks,          \* main: the num_tasks argument of Environment(...)
    num_barriers,       \* main: the num_barriers argument of Environment(...)
    construction,       \* where Environment.__init__ stands
    committed_cost,     \* history: total length of the paths find_nearest_task stored
    search_target,      \* the target argument of a direct search call
    search_result       \* what that call returned

vars == <<columns, rows, task_locations, barrier_locations, position, path,
          moving, cumulative_cost, task_completed, completed_tasks,
          simulation_started, current_algorithm, num_tasks, committed_cost,
          search_target, search_result, num_barriers, construction>>

envVars == <<columns, rows, barrier_locations, num_tasks, num_barriers, construction>>
probeVars == <<search_target, search_result>>

----------------------------------------------------------------------------
\* Generic helpers.

Range(s) == {s[i] : i \in 1..Len(s)}

Abs(n) == IF n < 0 THEN -n ELSE n

Reverse(s) == [i \in 1..Len(s) |-> s[Len(s) + 1 - i]]

Cells == (0..(columns - 1)) \X (0..(rows - 1))

TaskPositions == {task_locations[i][1] : i \in 1..Len(task_locations)}

None == [found |-> FALSE, path |-> <<>>, iters |-> 0]

----------------------------------------------------------------------------
\* Environment queries.

\* faulty variant: "<=" at the upper ends, one column and one row too many
is_within_bounds_inclusive(x, y) == 0 <= x /\ x <= columns /\ 0 <= y /\ y <= rows

is_within_bounds(x, y) == 0 <= x /\ x < columns /\ 0 <= y /\ y < rows

\* faulty variant: the barrier test is missing
is_barrier_never(x, y) == FALSE

is_barrier(x, y) == <<x, y>> \in barrier_locations

\* faulty variant: "right" mistyped as a diagonal
Directions_diagonal == << <<0, -1>>, <<0, 1>>, <<-1, 0>>, <<1, 1>> >>

\* directions = up, down, left, right
\* faulty variant: right is tried before left
Directions_right_first == << <<0, -1>>, <<0, 1>>, <<1, 0>>, <<-1, 0>> >>

Directions == << <<0, -1>>, <<0, 1>>, <<-1, 0>>, <<1, 0>> >>

\* faulty variant: the barrier test is missing
get_neighbors_through_barriers(x, y) ==
    LET cand == [i \in 1..4 |-> <<x + Directions[i][1], y + Directions[i][2]>>]
        ok(c) == is_within_bounds(c[1], c[2])
    IN SelectSeq(cand, ok)

get_neighbors(x, y) ==
    LET cand == [i \in 1..4 |-> <<x + Directions[i][1], y + Directions[i][2]>>]
        ok(c) == is_within_bounds(c[1], c[2]) /\ ~is_barrier(c[1], c[2])
    IN SelectSeq(cand, ok)

\* faulty variant: no estimate at all
heuristic_zero(a, b) == 0

heuristic(a, b) == Abs(a[1] - b[1]) + Abs(a[2] - b[2])

----------------------------------------------------------------------------
\* A-star.  open_set is the heap of entries <<f, position>>; an entry is
\* pushed only when g_score of its position strictly improves, so entries
\* are pairwise distinct and the heap is the set of them, popped in the
\* tuple order of heapq.  st = [open_set, came_from, g_score]; the f_score
\* dict is only written (its value is the f of the pushed entry).

HeapLess(a, b) ==
    \/ a[1] < b[1]
    \/ a[1] = b[1] /\ a[2][1] < b[2][1]
    \/ a[1] = b[1] /\ a[2][1] = b[2][1] /\ a[2][2] < b[2][2]

\* faulty variant: the heap gives its largest entry
heappop_largest(open_set) ==
    CHOOSE e \in open_set : \A o \in open_set \ {e} : HeapLess(o, e)

heappop(open_set) ==
    CHOOSE e \in open_set : \A o \in open_set \ {e} : HeapLess(e, o)

RECURSIVE BackChain(_, _)
BackChain(came_from, current) ==
    IF current \in DOMAIN came_from
    THEN <<current>> \o BackChain(came_from, came_from[current])
    ELSE <<current>>

\* faulty variant: the final "path.append(current)" is missing
reconstruct_path_no_start(came_from, current) ==
    Reverse(Tail(BackChain(came_from, current)))

\* faulty variant: "path.reverse()" is missing, the path runs goal to start
reconstruct_path_not_reversed(came_from, current) == BackChain(came_from, current)

reconstruct_path(came_from, current) == Reverse(BackChain(came_from, current))

\* faulty variant: "<=", a revisit at the same cost is taken as an improvement
Improves_or_equal(g_score, neighbor, tentative_g_score) ==
    neighbor \notin DOMAIN g_score \/ tentative_g_score <= g_score[neighbor]

Improves(g_score, neighbor, tentative_g_score) ==
    neighbor \notin DOMAIN g_score \/ tentative_g_score < g_score[neighbor]

\* the g_score recorded for cell c, -1 when c has none yet
Recorded(g_score, c) == IF c \in DOMAIN g_score THEN g_score[c] ELSE -1

\* st.log is a history of the call, not part of the code: one entry per
\* heappop ("pop": the cell and its g_score at that moment) and one per
\* neighbour looked at ("update" when g_score and came_from are written,
\* "skip" when they are not: old is the g_score recorded before, g the
\* tentative one).
RECURSIVE RelaxNeighbors(_, _, _, _, _)
RelaxNeighbors(st, current, goal, nbrs, i) ==
    IF i > Len(nbrs) THEN st
    ELSE LET neighbor == nbrs[i]
             tentative_g_score == st.g_score[current] + 1
             old == Recorded(st.g_score, neighbor)
         IN IF Improves(st.g_score, neighbor, tentative_g_score)
            THEN RelaxNeighbors(
                   [open_set  |-> st.open_set \cup
                                  {<<tentative_g_score + heuristic(neighbor, goal), neighbor>>},
                    came_from |-> (neighbor :> current) @@ st.came_from,
                    g_score   |-> (neighbor :> tentative_g_score) @@ st.g_score,
                    log       |-> Append(st.log, [ev |-> "update", cell |-> neighbor,
                                                  old |-> old, g |-> tentative_g_score])],
                   current, goal, nbrs, i + 1)
            ELSE RelaxNeighbors(
                   [st EXCEPT !.log = Append(@, [ev |-> "skip", cell |-> neighbor,
                                                 old |-> old, g |-> tentative_g_score])],
                   current, goal, nbrs, i + 1)

RECURSIVE AStarLoop(_, _, _)
AStarLoop(st, goal, iters) ==
    IF st.open_set = {}
    THEN [found |-> FALSE, path |-> <<>>, iters |-> iters, log |-> st.log]
    ELSE LET e == heappop(st.open_set)
             current == e[2]
             popped == [st EXCEPT !.open_set = @ \ {e},
                                  !.log = Append(@, [ev |-> "pop", cell |-> current,
                                                     old |-> st.g_score[current],
                                                     g |-> st.g_score[current]])]
         IN IF current = goal
            THEN [found |-> TRUE,
                  path  |-> reconstruct_path(st.came_from, current),
                  iters |-> iters + 1,
                  log   |-> popped.log]
            ELSE AStarLoop(RelaxNeighbors(popped, current, goal,
                                          get_neighbors(current[1], current[2]), 1),
                           goal, iters + 1)

a_star_search(target) ==
    AStarLoop([open_set  |-> {<<0, position>>},
               came_from |-> [c \in {} |-> c],
               g_score   |-> (position :> 0),
               log       |-> <<>>],
              target, 0)

----------------------------------------------------------------------------
\* IDA-star.  search returns [found, res, path, iters]: found is "FOUND",
\* otherwise res is the returned number (Infinity for float('inf')); path is
\* the list the call leaves behind; iters counts the calls of search.
\* pruned is a history of the call, not part of the code: the f values at
\* which "if f > threshold" cut a branch off.  The result of ida_star_search
\* carries, for its rounds in order, the thresholds (bounds) and those sets.

\* faulty variant: min_cost takes the last result without comparing
MinCost_last(result, min_cost) == result

\* "if result < min_cost: min_cost = result"
MinCost(result, min_cost) == IF result < min_cost THEN result ELSE min_cost

RECURSIVE search(_, _, _, _)
RECURSIVE SearchNeighbors(_, _, _, _, _, _, _, _)

search(p, g, threshold, goal) ==
    LET current == p[Len(p)]
        f == g + heuristic(current, goal)
    IN IF f > threshold
       THEN [found |-> FALSE, res |-> f, path |-> p, iters |-> 1, pruned |-> {f}]
       ELSE IF current = goal
       THEN [found |-> TRUE, res |-> 0, path |-> p, iters |-> 1, pruned |-> {}]
       ELSE SearchNeighbors(p, g, threshold, goal,
                            get_neighbors(current[1], current[2]), 1, Infinity, 1)

SearchNeighbors(p, g, threshold, goal, nbrs, i, min_cost, iters) ==
    IF i > Len(nbrs)
    THEN [found |-> FALSE, res |-> min_cost, path |-> p, iters |-> iters,
          pruned |-> {}]
    ELSE IF nbrs[i] \in Range(p)
    THEN SearchNeighbors(p, g, threshold, goal, nbrs, i + 1, min_cost, iters)
    ELSE LET result == search(Append(p, nbrs[i]), g + 1, threshold, goal)
         IN IF result.found
            THEN [result EXCEPT !.iters = iters + result.iters]
            ELSE LET rest == SearchNeighbors(p, g, threshold, goal, nbrs, i + 1,
                                             MinCost(result.res, min_cost),
                                             iters + result.iters)
                 IN [rest EXCEPT !.pruned = result.pruned \cup @]

RECURSIVE IDALoop(_, _, _, _)
IDALoop(start, goal, threshold, iters) ==
    LET result == search(<<start>>, 0, threshold, goal)
    IN IF result.found
       THEN [found |-> TRUE, path |-> result.path, iters |-> iters + result.iters,
             bounds |-> <<threshold>>, pruned |-> <<result.pruned>>]
       ELSE IF result.res = Infinity
       THEN [found |-> FALSE, path |-> <<>>, iters |-> iters + result.iters,
             bounds |-> <<threshold>>, pruned |-> <<result.pruned>>]
       ELSE LET rest == IDALoop(start, goal, result.res, iters + result.iters)
            IN [rest EXCEPT !.bounds = <<threshold>> \o @,
                            !.pruned = <<result.pruned>> \o @]

ida_star_search(target) ==
    IDALoop(position, target, heuristic(position, target), 0)

----------------------------------------------------------------------------
\* Agent operations.

\* "if path:" -- neither None nor an empty list
Truthy(r) == r.found /\ Len(r.path) > 0

SearchWith(algorithm, task_position) ==
    CASE algorithm = "A*"   -> a_star_search(task_position)
      [] algorithm = "IDA*" -> ida_star_search(task_position)

\* faulty variant: every found path replaces the candidate
Shorter_any(p, shortest_path) == TRUE

\* faulty variant: "<=", a later path of the same length replaces the candidate
Shorter_or_equal(p, shortest_path) ==
    ~Truthy(shortest_path) \/ Len(p.path) <= Len(shortest_path.path)

\* faulty variant: ">", the longest found path is kept
Shorter_reversed(p, shortest_path) ==
    ~Truthy(shortest_path) \/ Len(p.path) > Len(shortest_path.path)

\* "not shortest_path or len(path) < len(shortest_path)"
Shorter(p, shortest_path) ==
    ~Truthy(shortest_path) \/ Len(p.path) < Len(shortest_path.path)

\* the loop of find_nearest_task over task_locations.keys()
RECURSIVE NearestLoop(_, _, _)
NearestLoop(algorithm, i, best) ==
    IF i > Len(task_locations) THEN best
    ELSE LET task_position == task_locations[i][1]
             p == SearchWith(algorithm, task_position)
         IN IF Truthy(p) /\ Shorter(p, best.shortest_path)
            THEN NearestLoop(algorithm, i + 1,
                             [shortest_path |-> p, nearest_task |-> task_position])
            ELSE NearestLoop(algorithm, i + 1, best)

\* faulty variant: the stored path keeps the agent's own cell
Stored_whole(shortest_path) == shortest_path

\* "shortest_path[1:]": the stored path leaves out the agent's own cell
Stored(shortest_path) == Tail(shortest_path)

\* faulty variant: moving is set whether or not a path was found
find_nearest_task_always(algorithm) ==
    LET best == NearestLoop(algorithm, 1,
                            [shortest_path |-> None, nearest_task |-> <<>>])
    IN /\ path' = IF Truthy(best.shortest_path)
                  THEN Stored(best.shortest_path.path) ELSE path
       /\ moving' = TRUE
       /\ committed_cost' = committed_cost + Len(path')
       /\ UNCHANGED <<position, cumulative_cost, task_completed, completed_tasks,
                      task_locations>>

\* faulty variant: the selected task is taken out of the mapping at once
find_nearest_task_claims(algorithm) ==
    LET best == NearestLoop(algorithm, 1,
                            [shortest_path |-> None, nearest_task |-> <<>>])
    IN /\ IF Truthy(best.shortest_path)
          THEN /\ path' = Stored(best.shortest_path.path)
               /\ moving' = TRUE
               /\ committed_cost' = committed_cost + Len(Stored(best.shortest_path.path))
               /\ task_locations' = SelectSeq(task_locations,
                                              LAMBDA item : item[1] # best.nearest_task)
          ELSE UNCHANGED <<path, moving, committed_cost, task_locations>>
       /\ UNCHANGED <<position, cumulative_cost, task_completed, completed_tasks>>

find_nearest_task(algorithm) ==
    LET best == NearestLoop(algorithm, 1,
                            [shortest_path |-> None, nearest_task |-> <<>>])
    IN /\ IF Truthy(best.shortest_path)
          THEN /\ path' = Stored(best.shortest_path.path)
               /\ moving' = TRUE
               /\ committed_cost' = committed_cost + Len(Stored(best.shortest_path.path))
          ELSE UNCHANGED <<path, moving, committed_cost>>
       /\ UNCHANGED <<position, cumulative_cost, task_completed, completed_tasks,
                      task_locations>>

\* faulty variant: the first entry goes, whichever was meant
RemoveAt_first(s, i) == Tail(s)

RemoveAt(s, i) == [j \in 1..(Len(s) - 1) |-> IF j < i THEN s[j] ELSE s[j + 1]]

\* faulty variant: the "del" is missing, the task stays in the mapping
check_task_completion_no_del(position_tuple) ==
    IF position_tuple \in TaskPositions
    THEN LET i == CHOOSE k \in 1..Len(task_locations) :
                      task_locations[k][1] = position_tuple
         IN /\ task_locations' = task_locations
            /\ task_completed' = task_completed + 1
            /\ completed_tasks' = Append(completed_tasks, task_locations[i][2])
    ELSE UNCHANGED <<task_locations, task_completed, completed_tasks>>

check_task_completion(position_tuple) ==
    IF position_tuple \in TaskPositions
    THEN LET i == CHOOSE k \in 1..Len(task_locations) :
                      task_locations[k][1] = position_tuple
         IN /\ task_locations' = RemoveAt(task_locations, i)
            /\ task_completed' = task_completed + 1
            /\ completed_tasks' = Append(completed_tasks, task_locations[i][2])
    ELSE UNCHANGED <<task_locations, task_completed, completed_tasks>>

\* faulty variant: "path.pop()" takes the last cell of the path
move_pop_last ==
    IF path # <<>>
    THEN /\ position' = path[Len(path)]
         /\ path' = SubSeq(path, 1, Len(path) - 1)
         /\ cumulative_cost' = cumulative_cost + 1
         /\ check_task_completion(path[Len(path)])
         /\ UNCHANGED <<moving, committed_cost>>
    ELSE /\ moving' = FALSE
         /\ UNCHANGED <<position, path, cumulative_cost, committed_cost,
                        task_locations, task_completed, completed_tasks>>

move ==
    IF path # <<>>
    THEN /\ position' = Head(path)
         /\ path' = Tail(path)
         /\ cumulative_cost' = cumulative_cost + 1
         /\ check_task_completion(Head(path))
         /\ UNCHANGED <<moving, committed_cost>>
    ELSE /\ moving' = FALSE
         /\ UNCHANGED <<position, path, cumulative_cost, committed_cost,
                        task_locations, task_completed, completed_tasks>>

----------------------------------------------------------------------------
\* Construction and the driver loop of main.

BoundedSubsets(S, n) == {B \in SUBSET S : Cardinality(B) <= n}

\* generate_tasks(count): count distinct cells, numbered 1..count in order
generate_tasks(count) ==
    {[i \in 1..count |-> <<s[i], i>>] :
        s \in {t \in [1..count -> Cells] :
                  \A i, j \in 1..count : i # j => t[i] # t[j]}}

\* faulty variant: the drawn locations are not checked against exclude
generate_random_locations_any(exclude) == BoundedSubsets(Cells, MaxBarriers)

\* generate_random_locations(count, exclude), for every count up to MaxBarriers
generate_random_locations(exclude) == BoundedSubsets(Cells \ exclude, MaxBarriers)

AgentInit ==
    /\ position = <<0, 0>>
    /\ task_completed = 0
    /\ completed_tasks = <<>>
    /\ path = <<>>
    /\ moving = FALSE
    /\ cumulative_cost = 0
    /\ committed_cost = 0

NotCalled == [algorithm |-> "None", found |-> FALSE, path |-> <<>>, iters |-> 0]

MainInit ==
    /\ AgentInit
    /\ simulation_started = FALSE
    /\ current_algorithm = "None"
    /\ search_target = <<0, 0>>
    /\ search_result = NotCalled

\* Environment(...) on the bounded grid: every number of tasks and barriers
\* up to the bounds, every outcome of the random draws
GridInit ==
    /\ columns = MaxColumns
    /\ rows = MaxRows
    /\ num_tasks \in 0..MaxTasks
    /\ task_locations \in generate_tasks(num_tasks)
    /\ barrier_locations \in generate_random_locations(TaskPositions)
    /\ num_barriers = Cardinality(barrier_locations)
    /\ construction = "constructed"
    /\ MainInit

\* Environment(...) on a 5 x 5 grid without barriers, one task in any cell
OpenGridInit ==
    /\ columns = 5
    /\ rows = 5
    /\ num_tasks = 1
    /\ task_locations \in generate_tasks(1)
    /\ barrier_locations = {}
    /\ num_barriers = 0
    /\ construction = "constructed"
    /\ MainInit

Init == GridInit \/ OpenGridInit

\* faulty variant: the handler does not test simulation_started
Click_any_time(algorithm) ==
    /\ simulation_started' = TRUE
    /\ current_algorithm' = algorithm
    /\ IF Len(task_locations) > 0
       THEN find_nearest_task(algorithm)
       ELSE UNCHANGED <<position, path, moving, cumulative_cost, task_completed,
                        completed_tasks, task_locations, committed_cost>>
    /\ UNCHANGED <<envVars, probeVars>>

\* MOUSEBUTTONDOWN on one of the two buttons: handled before the start,
\* dropped once the simulation has started
Click(algorithm) ==
    IF ~simulation_started
    THEN /\ simulation_started' = TRUE
         /\ current_algorithm' = algorithm
         /\ IF Len(task_locations) > 0
            THEN find_nearest_task(algorithm)
            ELSE UNCHANGED <<position, path, moving, cumulative_cost, task_completed,
                             completed_tasks, task_locations, committed_cost>>
         /\ UNCHANGED <<envVars, probeVars>>
    ELSE UNCHANGED vars

ClickAStar == Click("A*")

ClickIDAStar == Click("IDA*")

\* one elapsed MOVEMENT_DELAY of the started simulation
TickFind ==
    /\ simulation_started
    /\ ~moving /\ Len(task_locations) > 0
    /\ find_nearest_task(current_algorithm)
    /\ UNCHANGED <<envVars, probeVars, simulation_started, current_algorithm>>

TickMove ==
    /\ simulation_started
    /\ ~(~moving /\ Len(task_locations) > 0)
    /\ moving
    /\ move
    /\ UNCHANGED <<envVars, probeVars, simulation_started, current_algorithm>>

\* faulty variant: a tick of the agent at rest is charged as a step
TickIdle_charged ==
    /\ simulation_started
    /\ ~(~moving /\ Len(task_locations) > 0)
    /\ ~moving
    /\ cumulative_cost' = cumulative_cost + 1
    /\ UNCHANGED <<envVars, probeVars, simulation_started, current_algorithm,
                   position, path, moving, committed_cost, task_locations,
                   task_completed, completed_tasks>>

TickIdle ==
    /\ simulation_started
    /\ ~(~moving /\ Len(task_locations) > 0)
    /\ ~moving
    /\ UNCHANGED vars

Next == ClickAStar \/ ClickIDAStar \/ TickFind \/ TickMove \/ TickIdle

Spec == Init /\ [][Next]_vars

\* The main loop runs at 60 frames a second and takes the tick branch each
\* time MOVEMENT_DELAY has elapsed: a tick that can act is eventually taken.
LiveSpec == Init /\ [][Next]_vars /\ WF_vars(TickMove)

----------------------------------------------------------------------------
\* Environment.__init__ step by step: one action per iteration of a draw
\* loop ("location" is the pair random.randint returns) and one per return.
\* The Agent and the variables of main do not exist yet; they are shown with
\* the values they are given right after.

\* what construction does not write
constructFrame == <<columns, rows, num_tasks, num_barriers, position, path, moving,
                    cumulative_cost, task_completed, completed_tasks,
                    simulation_started, current_algorithm, committed_cost, probeVars>>

ConstructInit ==
    /\ columns = GenColumns
    /\ rows = GenRows
    /\ num_tasks \in 0..MaxRequested
    /\ num_barriers \in 0..MaxRequested
    /\ task_locations = <<>>
    /\ barrier_locations = {}
    /\ construction = "generate_tasks"
    /\ MainInit

\* one pass of "while True" for task_number = Len(task_locations) + 1
generate_tasks_draw(location) ==
    /\ construction = "generate_tasks"
    /\ Len(task_locations) < num_tasks
    /\ task_locations' = IF location \notin TaskPositions
                         THEN Append(task_locations, <<location, Len(task_locations) + 1>>)
                         ELSE task_locations
    /\ UNCHANGED <<barrier_locations, construction, constructFrame>>

\* the for loop is exhausted: "return tasks", __init__ goes on to the barriers
generate_tasks_return ==
    /\ construction = "generate_tasks"
    /\ ~(Len(task_locations) < num_tasks)
    /\ construction' = "generate_random_locations"
    /\ UNCHANGED <<task_locations, barrier_locations, constructFrame>>

\* one pass of "while len(locations) < count", exclude = the task cells
generate_random_locations_draw(location) ==
    /\ construction = "generate_random_locations"
    /\ Cardinality(barrier_locations) < num_barriers
    /\ barrier_locations' = IF location \notin TaskPositions
                            THEN barrier_locations \cup {location}
                            ELSE barrier_locations
    /\ UNCHANGED <<task_locations, construction, constructFrame>>

\* "return locations": the Environment is constructed
generate_random_locations_return ==
    /\ construction = "generate_random_locations"
    /\ ~(Cardinality(barrier_locations) < num_barriers)
    /\ construction' = "constructed"
    /\ UNCHANGED <<task_locations, barrier_locations, constructFrame>>

DrawTask == \E location \in Cells : generate_tasks_draw(location)

DrawBarrier == \E location \in Cells : generate_random_locations_draw(location)

ConstructNext ==
    \/ DrawTask
    \/ generate_tasks_return
    \/ DrawBarrier
    \/ generate_random_locations_return

\* __init__ is not interrupted: while a step of it can change the state, one
\* is taken (a loop whose every draw is rejected takes no such step).
ConstructSpec == ConstructInit /\ [][ConstructNext]_vars /\ WF_vars(ConstructNext)

----------------------------------------------------------------------------
\* Reference notions the properties are stated against (not taken from the
\* search code): walkable cells, adjacency, breadth-first distance.

Walkable(c) == c \in Cells /\ c \notin barrier_locations

Adjacent(a, b) == Abs(a[1] - b[1]) + Abs(a[2] - b[2]) = 1

Grow(S) == S \cup {c \in Cells : Walkable(c) /\ \E d \in S : Adjacent(c, d)}

RECURSIVE Closure(_)
Closure(S) == LET T == Grow(S) IN IF T = S THEN S ELSE Closure(T)

\* the cells the agent can get to from start
Component(start) == Closure({start})

Connected(start, goal) == goal \in Component(start)

RECURSIVE Levels(_, _, _)
Levels(S, goal, n) ==
    IF goal \in S THEN n
    ELSE LET T == Grow(S) IN IF T = S THEN -1 ELSE Levels(T, goal, n + 1)

\* least number of moves from start to goal; -1 when there is no route
Distance(start, goal) == Levels({start}, goal, 0)

\* number of moves of a returned path
Moves(r) == Len(r.path) - 1

----------------------------------------------------------------------------
\* Direct calls of the two searches: every grid, every cell the agent can
\* occupy (its start cell or a walkable cell connected to it), every target.

SearchInit ==
    /\ columns = MaxColumns
    /\ rows = MaxRows
    /\ num_tasks = 0
    /\ task_locations = <<>>
    /\ barrier_locations \in generate_random_locations({})
    /\ num_barriers = Cardinality(barrier_locations)
    /\ construction = "constructed"
    /\ position \in Component(<<0, 0>>)
    /\ task_completed = 0
    /\ completed_tasks = <<>>
    /\ path = <<>>
    /\ moving = FALSE
    /\ cumulative_cost = 0
    /\ committed_cost = 0
    /\ simulation_started = FALSE
    /\ current_algorithm = "None"
    /\ search_target \in Cells
    /\ search_result = NotCalled

Call(algorithm) ==
    /\ search_result = NotCalled
    /\ search_result' = [algorithm |-> algorithm] @@ SearchWith(algorithm, search_target)
    /\ UNCHANGED <<columns, rows, task_locations, barrier_locations, position, path,
                   moving, cumulative_cost, task_completed, completed_tasks,
                   simulation_started, current_algorithm, num_tasks, committed_cost,
                   search_target, num_barriers, construction>>

CallAStar == Call("A*")

CallIDAStar == Call("IDA*")

SearchNext == CallAStar \/ CallIDAStar

SearchSpec == SearchInit /\ [][SearchNext]_vars

\* A direct call of get_neighbors(x, y) with <<x, y>> = search_target; the
\* returned list is kept in search_result.
CallNeighbors ==
    /\ search_result = NotCalled
    /\ search_result' = [algorithm |-> "get_neighbors",
                         neighbors |-> get_neighbors(search_target[1], search_target[2])]
    /\ UNCHANGED <<columns, rows, task_locations, barrier_locations, position, path,
                   moving, cumulative_cost, task_completed, completed_tasks,
                   simulation_started, current_algorithm, num_tasks, committed_cost,
                   search_target, num_barriers, construction>>

NeighborSpec == SearchInit /\ [][CallNeighbors]_vars

\* the cells around the grid, one step outside it
OffGrid == (((-1)..columns) \X ((-1)..rows)) \ Cells

\* Direct calls with a goal no route can end on: a barrier cell or a cell
\* outside the grid.
BlockedGoalInit ==
    /\ columns = MaxColumns
    /\ rows = MaxRows
    /\ num_tasks = 0
    /\ task_locations = <<>>
    /\ barrier_locations \in generate_random_locations({})
    /\ num_barriers = Cardinality(barrier_locations)
    /\ construction = "constructed"
    /\ position \in Component(<<0, 0>>)
    /\ task_completed = 0
    /\ completed_tasks = <<>>
    /\ path = <<>>
    /\ moving = FALSE
    /\ cumulative_cost = 0
    /\ committed_cost = 0
    /\ simulation_started = FALSE
    /\ current_algorithm = "None"
    /\ search_target \in barrier_locations \cup OffGrid
    /\ search_result = NotCalled

BlockedGoalSpec == BlockedGoalInit /\ [][SearchNext]_vars

----------------------------------------------------------------------------
\* Properties of the two searches, over SearchSpec.

Called(algorithm) == search_result.algorithm = algorithm

CalledAny == ~Called("None")

\* C1: for a walkable goal connected to the agent's cell, a_star_search
\* returns a path whose number of moves is the breadth-first distance.
C1_AStarShortest ==
    (Called("A*") /\ Walkable(search_target) /\ Connected(position, search_target))
        => /\ search_result.found
           /\ Moves(search_result) = Distance(position, search_target)

\* A-star has returned a route that barriers made longer than the straight one.
C1_Witness ==
    /\ Called("A*")
    /\ search_result.found
    /\ Moves(search_result) > Abs(position[1] - search_target[1])
                              + Abs(position[2] - search_target[2])

\* C2: on every grid and for every start and goal the two searches agree:
\* both fail, or both return paths with the same number of moves.
C2_SearchesAgree ==
    CalledAny =>
        LET other == IF Called("A*") THEN ida_star_search(search_target)
                                     ELSE a_star_search(search_target)
        IN /\ other.found = search_result.found
           /\ search_result.found => Len(other.path) = Len(search_result.path)

\* IDA-star has returned a route after raising its threshold at least once
\* (the route is longer than the first threshold).
C2_Witness ==
    /\ Called("IDA*")
    /\ search_result.found
    /\ barrier_locations # {}
    /\ Moves(search_result) >= 2 + Abs(position[1] - search_target[1])
                                 + Abs(position[2] - search_target[2])

\* C3: without barriers both searches return a path of exactly
\* |dx| + |dy| moves for every start and goal of the grid.
C3_BarrierFreeManhattan ==
    (CalledAny /\ barrier_locations = {})
        => /\ search_result.found
           /\ Moves(search_result) = Abs(position[1] - search_target[1])
                                     + Abs(position[2] - search_target[2])

\* A search across the whole barrier-free grid, corner to corner, has returned.
C3_Witness ==
    /\ CalledAny
    /\ barrier_locations = {}
    /\ position = <<0, 0>>
    /\ search_target = <<columns - 1, rows - 1>>
    /\ search_result.found

\* C4: when the goal has no route from the start, both searches return the
\* failure marker.
C4_UnreachableFails ==
    (CalledAny /\ ~Connected(position, search_target))
        => /\ ~search_result.found
           /\ search_result.path = <<>>

\* IDA-star has failed on a walkable goal that barriers cut off, after
\* more than one round of its depth-first search.
C4_Witness ==
    /\ Called("IDA*")
    /\ Walkable(search_target)
    /\ ~Connected(position, search_target)
    /\ ~search_result.found
    /\ search_result.iters > 1

----------------------------------------------------------------------------
\* Properties of task selection and of the agent's run, over Spec.

\* the open tasks that have a route from the agent's cell
ReachableTasks ==
    {i \in 1..Len(task_locations) : Connected(position, task_locations[i][1])}

\* the least distance from the agent's cell to a reachable open task
NearestDistance ==
    CHOOSE n \in {Distance(position, task_locations[i][1]) : i \in ReachableTasks} :
        \A i \in ReachableTasks : n <= Distance(position, task_locations[i][1])

\* In a state with the agent at rest and tasks open, the only steps that
\* change the state are a button click (before the start) and a find tick
\* (after it): both call find_nearest_task.
Selecting == ~moving /\ Len(task_locations) > 0

\* the cell a stored path leads to
Destination(from, p) == IF p = <<>> THEN from ELSE p[Len(p)]

\* C6: every call of find_nearest_task, made from the agent's cell against
\* the tasks open at that moment, stores a path to an open task whose
\* distance is least among the reachable open tasks (so never to a task
\* without a route while another has one); with no reachable task it stores
\* nothing.
C6_NearestTaskSelected ==
    [][Selecting =>
         IF ReachableTasks # {}
         THEN /\ moving'
              /\ position' = position
              /\ Len(path') = NearestDistance
              /\ Destination(position, path') \in TaskPositions
              /\ Connected(position, Destination(position, path'))
              /\ Distance(position, Destination(position, path')) = NearestDistance
         ELSE ~moving' /\ path' = path]_vars

\* A path has been stored to the second task of the mapping while the
\* first one has no route from the agent's cell.
C6_Witness ==
    /\ moving
    /\ Len(task_locations) = 2
    /\ ~Connected(position, task_locations[1][1])
    /\ path # <<>>
    /\ path[Len(path)] = task_locations[2][1]

AllTasksReachableFromStart ==
    \A i \in 1..Len(task_locations) : Connected(<<0, 0>>, task_locations[i][1])

NoDuplicates(s) == \A i, j \in 1..Len(s) : i # j => s[i] # s[j]

AllTasksCompleted ==
    /\ Len(task_locations) = 0
    /\ Len(completed_tasks) = num_tasks
    /\ NoDuplicates(completed_tasks)

\* a find tick is due: the simulation runs, the agent is at rest, tasks remain
FindDue == simulation_started /\ ~moving /\ Len(task_locations) > 0

\* C7: on a grid where every task has a route from the start cell (0,0),
\* the started simulation, its driver step invoked again and again (a find
\* that is due is taken, moves are taken by LiveSpec), eventually has no open
\* task, with num_tasks entries and no duplicate in the completed list.
C7_AllTasksEventuallyCompleted ==
    ([]<>~FindDue) =>
        ((simulation_started /\ AllTasksReachableFromStart) ~> AllTasksCompleted)

\* the 5 x 5 barrier-free grid whose single task was at (4,4), at its end
OpenGridEnd ==
    /\ columns = 5 /\ rows = 5
    /\ barrier_locations = {}
    /\ num_tasks = 1
    /\ ~moving
    /\ position = <<4, 4>>
    /\ Len(task_locations) = 0

\* C8: every call of find_nearest_task adds to the committed total the
\* distance to the nearest reachable open task (nothing when there is
\* none), and whenever the agent is at rest cumulative_cost equals that
\* total; the 5 x 5 run to the single task at (4,4) ends with cost 8 and
\* that task completed.
C8_CostIsCommittedLength ==
    [][/\ Selecting =>
            committed_cost' = committed_cost
                              + (IF ReachableTasks # {} THEN NearestDistance ELSE 0)
       /\ ~moving' => cumulative_cost' = committed_cost'
       /\ OpenGridEnd' => (cumulative_cost' = 8 /\ completed_tasks' = <<1>>)]_vars

\* The 5 x 5 run to the task at (4,4) has ended with cost 8.
C8_Witness ==
    /\ OpenGridEnd
    /\ cumulative_cost = 8
    /\ completed_tasks = <<1>>
    /\ task_completed = 1

\* tasks remain and none of them has a route from the agent's cell
NoReachableTask == ~moving /\ Len(task_locations) > 0 /\ ReachableTasks = {}

\* C9: when tasks remain and no search succeeds the agent stays at rest
\* with the tasks still open, and no step changes anything of the agent
\* or the tasks from then on: a start in that situation leaves zero cost
\* and zero completed tasks.
C9_StalledIsTerminal ==
    [][NoReachableTask =>
         /\ NoReachableTask'
         /\ UNCHANGED <<position, path, moving, cumulative_cost, task_completed,
                        completed_tasks, task_locations, committed_cost>>
         /\ simulation_started => UNCHANGED vars]_vars

\* The 3 x 3 grid whose barriers wall off the task at (2,2), after the start.
C9_Witness ==
    /\ columns = 3 /\ rows = 3
    /\ simulation_started
    /\ barrier_locations = {<<2, 1>>, <<1, 2>>}
    /\ task_locations = << <<<<2, 2>>, 1>> >>
    /\ position = <<0, 0>>
    /\ ~moving
    /\ cumulative_cost = 0
    /\ completed_tasks = <<>>

\* the task mapping without the entry at cell c
WithoutTaskAt(c) == SelectSeq(task_locations, LAMBDA item : item[1] # c)

\* the task numbers at cell c, in order
NumbersAt(c) ==
    LET at == SelectSeq(task_locations, LAMBDA item : item[1] = c)
    IN [i \in 1..Len(at) |-> at[i][2]]

\* C10: a step of the moving agent with a non-empty path removes the head
\* of the path, makes it the position, adds exactly 1 to the cost and
\* retires the task at the new position, if any; with the path exhausted it
\* leaves position and cost alone and clears moving.
C10_MoveConsumesOneCell ==
    [][moving =>
         IF path # <<>>
         THEN /\ position' = Head(path)
              /\ path' = Tail(path)
              /\ cumulative_cost' = cumulative_cost + 1
              /\ moving'
              /\ task_locations' = WithoutTaskAt(position')
              /\ completed_tasks' = completed_tasks \o NumbersAt(position')
              /\ task_completed' = task_completed + Len(NumbersAt(position'))
         ELSE /\ ~moving'
              /\ UNCHANGED <<position, path, cumulative_cost, task_locations,
                             task_completed, completed_tasks>>]_vars

\* The agent has come to rest after a move on an exhausted path, one task
\* retired and one still open.
C10_Witness ==
    /\ simulation_started
    /\ ~moving
    /\ path = <<>>
    /\ cumulative_cost > 1
    /\ task_completed = 1
    /\ Len(task_locations) = 1

\* a step that takes the agent to another cell: move with a non-empty path,
\* the only caller of check_task_completion
Arrives == position' # position

\* the number of the open task at cell c (c holds a task)
TaskIdAt(c) ==
    task_locations[CHOOSE k \in 1..Len(task_locations) : task_locations[k][1] = c][2]

\* C11: when the agent arrives on a cell, check_task_completion at that
\* cell takes exactly one entry out of the task mapping (the one at the cell,
\* the others keep their order), appends its number once to completed_tasks
\* and adds 1 to task_completed if a task is there, and leaves all three
\* alone if none is; no other step touches them.
C11_TaskRemovalEffect ==
    [][IF Arrives /\ position' \in TaskPositions
       THEN /\ Len(task_locations') = Len(task_locations) - 1
            /\ position' \notin {task_locations'[i][1] : i \in 1..Len(task_locations')}
            /\ Range(task_locations') = Range(task_locations) \ {<<position', TaskIdAt(position')>>}
            /\ Len(completed_tasks') = Len(completed_tasks) + 1
            /\ completed_tasks' = Append(completed_tasks, TaskIdAt(position'))
            /\ TaskIdAt(position') \notin Range(completed_tasks)
            /\ task_completed' = task_completed + 1
       ELSE UNCHANGED <<task_locations, completed_tasks, task_completed>>]_vars

\* The agent stands on the cell of the task numbered 2, which it has just
\* retired after crossing at least one cell without a task; task 1 is open.
C11_Witness ==
    /\ completed_tasks = <<2>>
    /\ task_completed = 1
    /\ Len(task_locations) = 1
    /\ task_locations[1][2] = 1
    /\ position \notin TaskPositions
    /\ cumulative_cost >= 2
    /\ path = <<>>
    /\ moving

\* the reachable open tasks whose distance from the agent's cell is least
NearestTasks ==
    {i \in ReachableTasks : Distance(position, task_locations[i][1]) = NearestDistance}

\* the first of them in the order of the task mapping
FirstNearest == CHOOSE i \in NearestTasks : \A j \in NearestTasks : i <= j

\* C12: among the open tasks at the least distance find_nearest_task
\* selects the one that comes first in the insertion order of the task
\* mapping: a later task at the same distance does not replace it.
C12_FirstOfTiedTasks ==
    [][(Selecting /\ ReachableTasks # {}) =>
           /\ moving'
           /\ Destination(position, path') = task_locations[FirstNearest][1]]_vars

\* The first selection of a run has just been made between two tasks at the
\* same distance, the first of the mapping being the larger cell in tuple
\* order: the stored path leads to the first.
C12_Witness ==
    /\ moving
    /\ cumulative_cost = 0
    /\ path # <<>>
    /\ Len(task_locations) = 2
    /\ Distance(position, task_locations[1][1]) = Distance(position, task_locations[2][1])
    /\ HeapLess(<<0, task_locations[2][1]>>, <<0, task_locations[1][1]>>)
    /\ path[Len(path)] = task_locations[1][1]

\* the agent is at rest and no task is open
Done == ~moving /\ path = <<>> /\ Len(task_locations) = 0

\* C13: once the agent is at rest with the task mapping empty, no step
\* calls a search or a move: position, path, cumulative cost, the completed
\* counter and list (and moving, the committed total and the empty mapping)
\* stay as they are in every later step, before and after the start.
C13_DoneIsTerminal ==
    [][Done =>
         /\ Done'
         /\ UNCHANGED <<position, path, moving, cumulative_cost, committed_cost,
                        task_completed, completed_tasks, task_locations>>]_vars

\* The started agent is at rest away from the start cell with both tasks of
\* the grid retired.
C13_Witness ==
    /\ simulation_started
    /\ Done
    /\ num_tasks = 2
    /\ task_completed = 2
    /\ Len(completed_tasks) = 2
    /\ position # <<0, 0>>
    /\ cumulative_cost >= 2

\* cell c lies on the grid
InBounds(c) == 0 <= c[1] /\ c[1] < columns /\ 0 <= c[2] /\ c[2] < rows

\* C15: in every state of a run the open task cells and the barrier cells
\* are disjoint, every task cell and every barrier cell lies on the grid,
\* and no two open tasks share a cell.
C15_TasksAndBarriersWellPlaced ==
    /\ TaskPositions \cap barrier_locations = {}
    /\ \A c \in TaskPositions : InBounds(c)
    /\ \A c \in barrier_locations : InBounds(c)
    /\ \A i, j \in 1..Len(task_locations) :
           i # j => task_locations[i][1] # task_locations[j][1]

\* One of two tasks has been retired on a grid with the full number of
\* barriers, a barrier next to the open task.
C15_Witness ==
    /\ simulation_started
    /\ Cardinality(barrier_locations) = MaxBarriers
    /\ num_tasks = 2
    /\ Len(task_locations) = 1
    /\ task_completed = 1
    /\ \E b \in barrier_locations :
           Abs(b[1] - task_locations[1][1][1]) + Abs(b[2] - task_locations[1][1][2]) = 1

----------------------------------------------------------------------------
\* Properties of construction, over ConstructSpec.

\* more tasks are requested than the grid has cells, or more barriers than
\* the cells the tasks leave
InvalidRequest ==
    \/ num_tasks > columns * rows
    \/ num_tasks + num_barriers > columns * rows

ConstructionEnded == construction \in {"constructed", "InvalidConfiguration"}

\* C14: construction always comes to an end, whatever numbers of tasks and
\* barriers are requested: it is constructed, or it has failed with
\* InvalidConfiguration when the request does not fit the grid.
C14_ConstructionTerminates == <>ConstructionEnded

----------------------------------------------------------------------------
\* Further properties of the agent's run, over Spec.

\* p, walked from cell from, is a chain of 4-adjacent walkable cells that
\* never comes back to from or to a cell of its own
WalkFrom(from, p) ==
    /\ \A i \in 1..Len(p) : Walkable(p[i])
    /\ \A i \in 1..Len(p) : Adjacent(IF i = 1 THEN from ELSE p[i - 1], p[i])
    /\ \A i \in 1..Len(p) : p[i] # from
    /\ NoDuplicates(p)

\* C16: when find_nearest_task succeeds, the stored path leaves out the
\* agent's cell, starts on a cell 4-adjacent to it, goes by 4-adjacent,
\* in-bounds, barrier-free cells without repeating one and ends on the cell
\* of an open task that has a route; it is empty only for a task on the
\* agent's own cell; when no open task has a route nothing is stored.
C16_StoredPathShape ==
    [][Selecting =>
         IF moving'
         THEN /\ WalkFrom(position, path')
              /\ Destination(position, path') \in TaskPositions
              /\ Connected(position, Destination(position, path'))
              /\ (path' = <<>>) <=> (position \in TaskPositions)
         ELSE /\ ReachableTasks = {}
              /\ path' = path]_vars

\* A path of at least four cells has just been stored that is longer than
\* the straight distance to its task: it goes round a barrier.
C16_Witness ==
    /\ moving
    /\ cumulative_cost = committed_cost - Len(path)
    /\ Len(path) >= 4
    /\ Len(path) > heuristic(position, path[Len(path)])
    /\ path[Len(path)] \in TaskPositions
    /\ barrier_locations # {}

\* C17: once the simulation has started it stays started with the
\* algorithm it was started with, whatever button is clicked later; the
\* algorithm of a started simulation is one of the two; and every path
\* find_nearest_task stores is the path that algorithm returns for the
\* selected task.
C17_AlgorithmFixedAfterStart ==
    [][/\ simulation_started =>
              (simulation_started' /\ current_algorithm' = current_algorithm)
       /\ simulation_started' => current_algorithm' \in {"A*", "IDA*"}
       /\ (Selecting /\ moving') =>
              path' = Stored(SearchWith(current_algorithm',
                                        Destination(position, path')).path)]_vars

\* A simulation started with IDA-star has retired a task and has just
\* stored a path to the next one that differs from the path A-star returns.
C17_Witness ==
    /\ simulation_started
    /\ current_algorithm = "IDA*"
    /\ task_completed = 1
    /\ moving
    /\ path # <<>>
    /\ cumulative_cost = committed_cost - Len(path)
    /\ path # Stored(a_star_search(path[Len(path)]).path)

----------------------------------------------------------------------------
\* Properties of the searches on goals that are not walkable, over
\* BlockedGoalSpec.

\* C18: with a goal that is a barrier cell or lies outside the grid, and
\* is not the agent's own cell, a_star_search and ida_star_search both
\* terminate with the failure marker: no path is returned.
C18_BlockedGoalFails ==
    (/\ CalledAny
     /\ search_target # position
     /\ (search_target \in barrier_locations \/ ~InBounds(search_target)))
        => /\ ~search_result.found
           /\ search_result.path = <<>>

\* IDA-star has failed, after several rounds, on a goal one step outside
\* the grid next to the agent's cell, the agent away from the start corner.
C18_Witness ==
    /\ Called("IDA*")
    /\ ~InBounds(search_target)
    /\ Adjacent(position, search_target)
    /\ position # <<0, 0>>
    /\ ~search_result.found
    /\ search_result.iters > 4

----------------------------------------------------------------------------
\* Properties of get_neighbors, over NeighborSpec.

\* up, down, left, right of cell c, in that order
FourAround(c) ==
    << <<c[1], c[2] - 1>>, <<c[1], c[2] + 1>>, <<c[1] - 1, c[2]>>, <<c[1] + 1, c[2]>> >>

\* C19: get_neighbors(x, y) returns the cells among up (x, y-1), down
\* (x, y+1), left (x-1, y), right (x+1, y) that are on the grid and not
\* barriers, in that order: each once, no diagonal cell, nothing else.
C19_NeighborsUpDownLeftRight ==
    Called("get_neighbors") =>
        /\ search_result.neighbors = SelectSeq(FourAround(search_target), Walkable)
        /\ Range(search_result.neighbors)
               = {c \in Cells : Walkable(c) /\ Adjacent(c, search_target)}
        /\ NoDuplicates(search_result.neighbors)

\* get_neighbors of the middle cell has returned up and right only: down
\* and left are barriers.
C19_Witness ==
    /\ Called("get_neighbors")
    /\ search_target = <<1, 1>>
    /\ barrier_locations = {<<1, 2>>, <<0, 1>>}
    /\ search_result.neighbors = << <<1, 0>>, <<2, 1>> >>

----------------------------------------------------------------------------
\* Properties of the A-star loop, over SearchSpec (the log of the call).

Log == search_result.log

\* C20: in a_star_search every cell taken from the open set has, at that
\* moment, a g_score equal to its breadth-first distance from the start; a
\* neighbour's g_score (with its back-pointer) is written only when the
\* neighbour has none yet or the tentative cost is strictly smaller, and a
\* neighbour looked at with an equal or larger tentative cost is left alone.
C20_PoppedIsOptimal ==
    Called("A*") =>
        \A i \in 1..Len(Log) :
            /\ Log[i].ev = "pop" => Log[i].g = Distance(position, Log[i].cell)
            /\ Log[i].ev = "update" => (Log[i].old = -1 \/ Log[i].g < Log[i].old)
            /\ Log[i].ev = "skip" => (Log[i].old # -1 /\ Log[i].g >= Log[i].old)
            /\ Log[i].ev \in {"update", "skip"} =>
                   Log[i].g >= Distance(position, Log[i].cell)

\* A-star has passed over a neighbour recorded at the same cost, has
\* lowered the g_score of a cell it had already recorded, and has later
\* taken that cell from the open set with the lowered g_score.
C20_Witness ==
    /\ Called("A*")
    /\ \E i \in 1..Len(Log) :
           /\ Log[i].ev = "pop"
           /\ Log[i].g >= 2
           /\ \E j \in 1..(i - 1) : Log[j].ev = "skip" /\ Log[j].g = Log[j].old
           /\ \E k \in 1..(i - 1) :
                  /\ Log[k].ev = "update" /\ Log[k].old # -1 /\ Log[k].g < Log[k].old
                  /\ Log[k].cell = Log[i].cell
                  /\ Log[k].g = Log[i].g

----------------------------------------------------------------------------
\* Properties of the IDA-star rounds, over SearchSpec (the history of the call).

Bounds == search_result.bounds

Pruned == search_result.pruned

\* the least element of a non-empty set of numbers
Least(S) == CHOOSE n \in S : \A m \in S : n <= m

\* C21: ida_star_search starts with the bound |dx| + |dy| of start and
\* goal; every round that ends without the goal and has cut off a branch is
\* followed by a round whose bound is the least f = g + h at which a branch
\* was cut off, a number strictly greater than the bound before; the search
\* fails exactly in a round that cut off nothing; every bound is finite, so
\* the bounds rise strictly and the rounds end.
C21_BoundsRiseToLeastPruned ==
    Called("IDA*") =>
        /\ Len(Bounds) >= 1
        /\ Len(Pruned) = Len(Bounds)
        /\ Bounds[1] = Abs(position[1] - search_target[1])
                       + Abs(position[2] - search_target[2])
        /\ \A i \in 1..Len(Bounds) :
               /\ \A f \in Pruned[i] : f > Bounds[i]
               /\ Bounds[i] < columns * rows + columns + rows
               /\ i < Len(Bounds) =>
                      /\ Pruned[i] # {}
                      /\ Bounds[i + 1] = Least(Pruned[i])
                      /\ Bounds[i + 1] > Bounds[i]
        /\ ~search_result.found => Pruned[Len(Bounds)] = {}
        /\ search_result.found =>
               Bounds[Len(Bounds)] = Len(search_result.path) - 1

\* IDA-star has failed on a walkable goal after at least three rounds,
\* the last of which cut off no branch.
C21_Witness ==
    /\ Called("IDA*")
    /\ Walkable(search_target)
    /\ ~search_result.found
    /\ Len(Bounds) >= 3
    /\ Pruned[Len(Bounds)] = {}
    /\ Pruned[1] # {}
    /\ Bounds[2] = Bounds[1] + 2

----------------------------------------------------------------------------
\* Frame and conservation properties of the agent's run, over Spec.

\* C22: a step that calls find_nearest_task (the agent at rest, tasks open),
\* with all the searches it runs, changes nothing but path and moving (and
\* the committed total kept beside them): position, cumulative cost, the
\* completed counter and list, the task mapping and the barriers stay; no
\* step at all changes the barriers or the grid dimensions; and the task
\* mapping changes only in a move of the agent onto a task cell, by losing
\* the entry at that cell.
C22_SideEffectsConfined ==
    [][/\ UNCHANGED <<barrier_locations, columns, rows>>
       /\ Selecting => UNCHANGED <<position, cumulative_cost, task_completed,
                                   completed_tasks, task_locations>>
       /\ ~moving => UNCHANGED <<position, cumulative_cost, task_completed,
                                 completed_tasks, task_locations>>
       /\ task_locations' # task_locations =>
              /\ moving
              /\ path # <<>>
              /\ position' = Head(path)
              /\ position' \in TaskPositions
              /\ task_locations' = WithoutTaskAt(position')]_vars

\* A-star has just stored the path to the second task of a run on a grid
\* with the full number of barriers, the first task retired.
C22_Witness ==
    /\ simulation_started
    /\ current_algorithm = "A*"
    /\ Cardinality(barrier_locations) = MaxBarriers
    /\ task_completed = 1
    /\ Len(task_locations) = 1
    /\ moving
    /\ path # <<>>
    /\ cumulative_cost = committed_cost - Len(path)
    /\ position \notin barrier_locations

\* C23: whenever the agent is at rest no open task lies on the cell it
\* occupies: a task on the agent's cell, the start cell (0,0) included, has
\* been retired.
C23_NoOpenTaskUnderRestingAgent ==
    ~moving => position \notin TaskPositions

\* C24: while the agent follows a non-empty stored path, no cell of the
\* path before the last holds a task and the last one does; a step onto a
\* cell before the last removes no task, the step onto the last cell removes
\* exactly one, the task selected: a selection with the movement that
\* follows it retires exactly one task.
C24_OneTaskPerPath ==
    [][(moving /\ path # <<>>) =>
         /\ \A i \in 1..(Len(path) - 1) : path[i] \notin TaskPositions
         /\ path[Len(path)] \in TaskPositions
         /\ IF Len(path) > 1
            THEN UNCHANGED <<task_locations, completed_tasks, task_completed>>
            ELSE /\ position' = path[Len(path)]
                 /\ Len(task_locations') = Len(task_locations) - 1
                 /\ position' \notin {task_locations'[i][1] : i \in 1..Len(task_locations')}
                 /\ Len(completed_tasks') = Len(completed_tasks) + 1
                 /\ task_completed' = task_completed + 1]_vars

\* The agent has just stepped onto the last cell of its second path: both
\* tasks are retired, one per path, after at least four moves.
C24_Witness ==
    /\ moving
    /\ path = <<>>
    /\ num_tasks = 2
    /\ task_completed = 2
    /\ Len(task_locations) = 0
    /\ cumulative_cost >= 4
    /\ cumulative_cost = committed_cost
    /\ barrier_locations # {}

\* the task numbers still in the mapping
OpenIds == {task_locations[i][2] : i \in 1..Len(task_locations)}

\* C25: in every state task_completed is the length of completed_tasks,
\* no number occurs twice in completed_tasks or twice in the mapping, and
\* the completed numbers and the numbers still in the mapping are disjoint
\* and together are the numbers 1..num_tasks given at construction.
C25_TasksConserved ==
    /\ task_completed = Len(completed_tasks)
    /\ NoDuplicates(completed_tasks)
    /\ Cardinality(OpenIds) = Len(task_locations)
    /\ Range(completed_tasks) \cap OpenIds = {}
    /\ Range(completed_tasks) \cup OpenIds = 1..num_tasks

\* Both tasks of a grid have been retired, the second of the mapping first.
C25_Witness ==
    /\ num_tasks = 2
    /\ completed_tasks = <<2, 1>>
    /\ task_completed = 2
    /\ task_locations = <<>>
    /\ ~moving

\* C26: the agent's position is on the grid in every state, and every
\* step that changes it is a step of the moving agent to a cell 4-adjacent
\* to the cell it leaves, on the grid and not a barrier, with A-star and
\* with IDA-star alike.
C26_AgentWalksTheGrid ==
    [][/\ InBounds(position)
       /\ InBounds(position')
       /\ position' # position =>
              /\ moving
              /\ current_algorithm \in {"A*", "IDA*"}
              /\ Adjacent(position, position')
              /\ position' \notin barrier_locations]_vars

\* The agent, started on a barrier at (0,0) with IDA-star, has walked at
\* least three cells and stands next to a barrier.
C26_Witness ==
    /\ current_algorithm = "IDA*"
    /\ <<0, 0>> \in barrier_locations
    /\ cumulative_cost >= 3
    /\ position # <<0, 0>>
    /\ \E b \in barrier_locations \ {<<0, 0>>} : Adjacent(position, b)

====
